---- MODULE Spec2Model ----
(***************************************************************************)
(* Model of the prompt soundscape: the PromptDjMidi collection controller  *)
(* (src/unnamed/part_000), its LevelSelector (same file) and the           *)
(* PromptController widgets (src/components/PromptController.ts).          *)
(*                                                                         *)
(* Prompt objects live in a heap, because the code shares them by          *)
(* reference: the collection, the widgets and the notification payloads    *)
(* hold references to the same Prompt objects, updateLevel mutates the     *)
(* object in place and handlePointerMove replaces it by a copy.            *)
(*                                                                         *)
(* Scales.  weight is stored in tenths (weight 1.2 is 12).  Lengths are    *)
(* in units of a quarter vmin, so the disc of baseSize + level * 2.5 vmin  *)
(* is 4 * baseSize + level * 10 units wide.                                *)
(*                                                                         *)
(* History.  A Prompt object carries the field moved, which the code does  *)
(* not have: TRUE iff handlePointerMove computed the position it holds.    *)
(* A widget carries the field finalPos, which the code does not have: the  *)
(* position the last pointer move of its current drag computed, << >> if   *)
(* the drag has had none.                                                  *)
(***************************************************************************)
EXTENDS Integers, Sequences, FiniteSets, TLC

VARIABLES
  prompts,           \* PromptDjMidi.prompts: Map in insertion order, <<[key, ref]>>
  heap,              \* the Prompt objects, heap[ref]
  nextCC,            \* PromptDjMidi.nextCC (static counter)
  availablePrompts,  \* PromptDjMidi.availablePrompts
  soundscape,        \* #soundscape element: [w, h] = offsetWidth, offsetHeight
  widgets,           \* every PromptController element ever created, in creation order
  windowListeners,   \* the widgets listening on window, in registration order
  out,               \* the prompt events the last handler dispatched, in order
  lastOp,            \* the last handler and its input
  addLog,            \* history: the cc each successful add assigned, in order
  fn,                \* the pure function last applied (specification SpecFn only)
  throttle,          \* the throttle around makeBackground: [elapsed, pending, result, ran]
  held,              \* the prompts-changed payload a listener of the host kept
  midi               \* the MIDI panel of PromptDjMidi and its calls of getMidiAccess

vars == <<prompts, heap, nextCC, availablePrompts, soundscape, widgets,
          windowListeners, out,
          lastOp, addLog, fn, throttle, held, midi>>

-----------------------------------------------------------------------------
(* Bounds *)

\* handleAddPrompt is disabled once nextCC has reached MaxCC.
MaxCC == 2
\* No handler runs whose render would create more than MaxWidgets elements.
MaxWidgets == 2
\* No pointer goes down on a disc while MaxDrags widgets listen on window.
MaxDrags == 1
\* The clock advances in steps of TickStep time units.
TickStep == 10
\* No MIDI panel is opened once getMidiAccess was called MaxAcquisitions times.
MaxAcquisitions == 3
\* Under SpecCC no prompt is added once nextCC has reached MaxAdds.
MaxAdds == 129

-----------------------------------------------------------------------------
(* Program constants *)

\* const baseSize = 10 (vmin)
baseSize == 10
\* const sizeStep = 2.5 (vmin), doubled to stay an integer
sizeStepX2 == 5

\* The palette handed to the constructor (allPrompts).
allPrompts ==
  << [text |-> "Bass", color |-> "#ff25f6"],
     [text |-> "Drums", color |-> "#2af6de"] >>

\* What the <select> or a dispatched event can carry: a palette name or the
\* empty string (a <select> without options).
TextInputs == {"", "Bass", "Drums"}

-----------------------------------------------------------------------------
(* Arithmetic *)

Min(a, b) == IF a < b THEN a ELSE b
Max(a, b) == IF a > b THEN a ELSE b

\* Math.round(num / den) for den > 0: floor(num/den + 1/2).
MathRound(num, den) == (2 * num + den) \div (2 * den)

\* PromptController.level: Math.round(this.prompt.weight * 2.5)
\* (weight in tenths: weight * 2.5 = tenths * 25 / 100)
weightToLevelDoubled(weight) == MathRound(weight * 20, 100)
weightToLevel(weight) == MathRound(weight * 25, 100)

\* updateLevel: newLevel / 2.5
\* (in tenths: 10 * level / 2.5 = level * 20 / 5)
levelToWeightHalved(level) == (level * 10) \div 2
levelToWeight(level) == (level * 20) \div 5

\* cc-message listener: Math.round((value / 127) * 5)
ccToLevelPercent(value) == MathRound(value * 5, 100)
ccToLevel(value) == MathRound(value * 5, 127)

\* render: discSize = baseSize + level * sizeStep, in quarter vmin
discSize(level) == 4 * baseSize + level * 2 * sizeStepX2

\* this.offsetWidth / 2 (= this.offsetHeight / 2: the disc is square)
halfExtent(level) == discSize(level) \div 2

\* Math.max(half, Math.min(requested, extent - half))
clampUpperFirst(requested, half, extent) ==
  Min(extent - half, Max(half, requested))
clampShifted(requested, half, extent) ==
  Max(half, Min(requested, extent) - half)
clampNoMargin(requested, half, extent) == Max(half, Min(requested, extent))
clamp(requested, half, extent) == Max(half, Min(requested, extent - half))

-----------------------------------------------------------------------------
(* The Map of prompts, in insertion order *)

MapHas(m, k) == \E i \in 1..Len(m) : m[i].key = k

MapGet(m, k) == (CHOOSE i \in 1..Len(m) : m[i].key = k)

\* this.prompts.get(k), the Prompt objects being in h
Record(m, h, k) == h[m[MapGet(m, k)].ref]

MapSet(m, k, r) ==
  IF MapHas(m, k)
  THEN [i \in 1..Len(m) |-> IF m[i].key = k THEN [key |-> k, ref |-> r] ELSE m[i]]
  ELSE Append(m, [key |-> k, ref |-> r])

MapDelete(m, k) == SelectSeq(m, LAMBDA e : e.key # k)

\* getAvailablePrompts: allPrompts.filter(p => !this.prompts.has(p.text))
getAvailablePrompts(m) == SelectSeq(allPrompts, LAMBDA p : ~MapHas(m, p.text))

-----------------------------------------------------------------------------
(* Events *)

\* dispatchPromptsChanged: detail is new Map(this.prompts), a copy of the
\* Map that holds the same Prompt objects.
PromptsChangedEvent(m) == [type |-> "prompts-changed", ref |-> 0, snapshot |-> m]

\* dispatchPromptChange: detail is this.prompt
PromptChangedEvent(r) == [type |-> "prompt-changed", ref |-> r, snapshot |-> << >>]

\* The prompt-changed events among the events of a handler
PromptChangedIn(o) == SelectSeq(o, LAMBDA e : e.type = "prompt-changed")

\* held: snapshot is the Map the listener received (e.detail), view what the
\* Map held when it was published, key by key; taken tells whether the
\* listener has kept one.
NoHeld == [taken |-> FALSE, snapshot |-> << >>, view |-> << >>]

NoOp == [op |-> "init", id |-> "", n |-> 0, level |-> 0]

Op(name, id, n, level) == [op |-> name, id |-> id, n |-> n, level |-> level]

\* fn: op is the function applied, a, b, c its arguments, r its result;
\* prev and r2 are what the second application of a pair keeps of the first.
NoFn == [op |-> "none", a |-> 0, b |-> 0, c |-> 0, r |-> 0, prev |-> 0, r2 |-> 0]

-----------------------------------------------------------------------------
(* The heap: only reachable objects are kept, numbered in the order in    *)
(* which the collection, the widgets and the dispatched events name them *)

RECURSIVE OutRefs(_)
OutRefs(o) ==
  IF o = << >> THEN << >>
  ELSE (IF Head(o).ref = 0 THEN << >> ELSE << Head(o).ref >>)
       \o [i \in 1..Len(Head(o).snapshot) |-> Head(o).snapshot[i].ref]
       \o OutRefs(Tail(o))

RefSeq(p, w, o) ==
  [i \in 1..Len(p) |-> p[i].ref] \o [i \in 1..Len(w) |-> w[i].prompt] \o OutRefs(o)
  \o [i \in 1..Len(held.snapshot) |-> held.snapshot[i].ref]

RECURSIVE Uniq(_)
Uniq(s) ==
  IF s = << >> THEN << >>
  ELSE LET r == Uniq(SubSeq(s, 1, Len(s) - 1))
           x == s[Len(s)]
       IN IF \E i \in 1..Len(r) : r[i] = x THEN r ELSE Append(r, x)

Renumber(order, r) == CHOOSE i \in 1..Len(order) : order[i] = r

RenumberMap(order, m) ==
  [i \in 1..Len(m) |-> [key |-> m[i].key, ref |-> Renumber(order, m[i].ref)]]

-----------------------------------------------------------------------------
(* PromptController elements *)

\* A new element: the field initialisers, then the template's .prompt.
NewWidget(ref) ==
  [prompt |-> ref, connected |-> TRUE, isDragging |-> FALSE,
   dragStartX |-> 0, dragStartY |-> 0, promptStartX |-> 0, promptStartY |-> 0,
   finalPos |-> << >>]

\* The widget once its window listeners are removed, isDragging being d.
\* dragStartX/Y and promptStartX/Y are read by handlePointerMove alone, which
\* only a window listener calls, and handlePointerDown sets all four before it
\* adds the listeners: the code leaves the old values in place, where nothing
\* reads them, and the model stores 0 so that such states are one state.
EndDrag(wi, d) ==
  [wi EXCEPT !.isDragging = d, !.dragStartX = 0, !.dragStartY = 0,
             !.promptStartX = 0, !.promptStartY = 0, !.finalPos = << >>]

\* The position of widget i among the connected widgets: its index in the
\* list renderPrompts renders (elements are reused by position, and the
\* list grows and shrinks at its end).
Rank(w, i) == Cardinality({j \in 1..i : w[j].connected})

Connected(w) == {i \in 1..Len(w) : w[i].connected}

\* PromptController.level of a widget
WidgetLevel(h, wi) == weightToLevel(h[wi.prompt].weight)

\* PromptDjMidi.render: renderPrompts binds the i-th connected element to the
\* i-th prompt of the Map (.prompt=${prompt}, an object, is always assigned),
\* removes the elements beyond the list (disconnectedCallback) and creates
\* the missing ones (connectedCallback).
RenderWidgets(p, w) ==
  LET kept == [i \in 1..Len(w) |->
                 IF ~w[i].connected THEN w[i]
                 ELSE IF Rank(w, i) <= Len(p)
                      THEN [w[i] EXCEPT !.prompt = p[Rank(w, i)].ref]
                      ELSE [EndDrag(w[i], w[i].isDragging) EXCEPT !.connected = FALSE]]
      m == Cardinality(Connected(w))
  IN kept \o [k \in 1..(IF Len(p) > m THEN Len(p) - m ELSE 0) |->
                NewWidget(p[m + k].ref)]

\* disconnectedCallback: window.removeEventListener for the removed elements
RenderListenersKept(p, w, wl) == wl
RenderListeners(p, w, wl) ==
  SelectSeq(wl, LAMBDA i : Rank(w, i) <= Len(p))

-----------------------------------------------------------------------------
(* makeBackground = throttle(() => ..., 30) *)

\* The delay given to throttle
IntervalShort == 30 \div 3
Interval == 30

\* The throttled function: the prompts of weight > 0, in Map order, each with
\* the color and the weight its gradient is computed from (the random
\* placement of each gradient is left out).
Background(p, h) ==
  LET active == SelectSeq([i \in 1..Len(p) |-> h[p[i].ref]], LAMBDA q : q.weight > 0)
  IN [i \in 1..Len(active) |-> [color |-> active[i].color, weight |-> active[i].weight]]

\* The throttle when nothing has been computed.  elapsed is the time since
\* the last computation, counted up to Interval; pending is the single timer
\* of the throttle; result is the value last computed; ran tells whether the
\* last step of the program computed it anew: "no", or by "call" or "timer".
NoThrottle == [elapsed |-> Interval, pending |-> FALSE, result |-> << >>, ran |-> "no"]

\* A call of the throttled function: in a quiet period it computes at once;
\* otherwise it leaves the computation to the timer, started if none is
\* pending, that is due when Interval has elapsed since the last computation.
throttleCall(t, p, h) ==
  IF t.elapsed >= Interval /\ ~t.pending
  THEN [elapsed |-> 0, pending |-> FALSE, result |-> Background(p, h), ran |-> "call"]
  ELSE [t EXCEPT !.pending = TRUE, !.ran = "no"]

\* The timer of the throttle: the trailing computation, from the prompts as
\* they are when it runs.
throttleTimer(t, p, h) ==
  [elapsed |-> 0, pending |-> FALSE, result |-> Background(p, h), ran |-> "timer"]

-----------------------------------------------------------------------------
(* The end of every handler: the state is stored with the heap compacted *)

Store(p, h, w, wl, o, op) ==
  LET order == Uniq(RefSeq(p, w, o))
  IN /\ Len(w) <= MaxWidgets
     /\ prompts' = RenumberMap(order, p)
     /\ heap' = [i \in 1..Len(order) |-> h[order[i]]]
     /\ widgets' = [i \in 1..Len(w) |->
                      [w[i] EXCEPT !.prompt = Renumber(order, w[i].prompt)]]
     /\ windowListeners' = wl
     /\ out' = [i \in 1..Len(o) |->
                  [type |-> o[i].type,
                   ref |-> IF o[i].ref = 0 THEN 0 ELSE Renumber(order, o[i].ref),
                   snapshot |-> RenumberMap(order, o[i].snapshot)]]
     /\ lastOp' = op
     /\ held' = [held EXCEPT !.snapshot = RenumberMap(order, held.snapshot)]

\* A handler that requested no update of PromptDjMidi.
Commit(p, h, w, wl, o, op) ==
  /\ Store(p, h, w, wl, o, op)
  /\ throttle' = [throttle EXCEPT !.ran = "no"]
  /\ UNCHANGED midi

\* A handler that requested an update of PromptDjMidi: render, which calls
\* makeBackground, then store.
CommitRendered(p, h, w, wl, o, op) ==
  /\ Store(p, h, RenderWidgets(p, w), RenderListeners(p, w, wl), o, op)
  /\ throttle' = throttleCall(throttle, p, h)
  /\ UNCHANGED midi

-----------------------------------------------------------------------------
(* PromptDjMidi *)

\* handlePromptChanged, on the record st = [p, h, o]
handlePromptChanged(st, ref) ==
  LET p2 == MapSet(st.p, st.h[ref].promptId, ref)
  IN [p |-> p2, h |-> st.h, o |-> Append(st.o, PromptsChangedEvent(p2))]

\* handleAddPrompt's first early return: !text || this.prompts.has(text)
addRejectedNoCheck(m, text) == text = ""
addRejected(m, text) == text = "" \/ MapHas(m, text)

\* handleAddPrompt, text = this.promptSelect.value
addPrompt(text) ==
  /\ IF addRejected(prompts, text)
        \/ ~\E i \in 1..Len(allPrompts) : allPrompts[i].text = text
     THEN /\ Commit(prompts, heap, widgets, windowListeners, << >>,
                    Op("add", text, 0, 0))
          /\ UNCHANGED <<nextCC, availablePrompts, addLog>>
     ELSE LET defaultPrompt ==
                allPrompts[CHOOSE i \in 1..Len(allPrompts) : allPrompts[i].text = text]
              newPrompt ==
                [promptId |-> text, text |-> text, weight |-> 0, cc |-> nextCC,
                 color |-> defaultPrompt.color,
                 x |-> soundscape.w \div 2, y |-> soundscape.h \div 2,
                 moved |-> FALSE]
              h2 == Append(heap, newPrompt)
              p2 == MapSet(prompts, text, Len(h2))
          IN /\ nextCC' = nextCC + 1
             /\ availablePrompts' = getAvailablePrompts(p2)
             /\ addLog' = Append(addLog, newPrompt.cc)
             /\ CommitRendered(p2, h2, widgets, windowListeners,
                               << PromptsChangedEvent(p2) >>, Op("add", text, 0, 0))
  /\ UNCHANGED <<soundscape, fn>>

\* the click on Add, while the counter is below MaxCC
handleAddPrompt(text) ==
  /\ nextCC < MaxCC
  /\ addPrompt(text)

\* handlePromptRemoved, promptIdToRemove = e.detail
handlePromptRemoved(promptIdToRemove) ==
  LET p2 == MapDelete(prompts, promptIdToRemove)
  IN /\ availablePrompts' = getAvailablePrompts(p2)
     /\ CommitRendered(p2, heap, widgets, windowListeners,
                       << PromptsChangedEvent(p2) >>,
                       Op("remove", promptIdToRemove, 0, 0))
     /\ UNCHANGED <<nextCC, soundscape, addLog, fn>>

\* A reactive property of PromptDjMidi set by the host (audioLevel,
\* playbackState, filteredPrompts): an update, hence a render.
HostUpdate ==
  /\ CommitRendered(prompts, heap, widgets, windowListeners, << >>,
                    Op("render", "", 0, 0))
  /\ UNCHANGED <<nextCC, availablePrompts, soundscape, addLog, fn>>

-----------------------------------------------------------------------------
(* PromptController *)

\* updateLevel of the widget holding ref: the Prompt object is mutated in
\* place, prompt-changed is dispatched and handled by handlePromptChanged.
updateLevelDropped(st, ref, newLevel) ==
  handlePromptChanged(
    [p |-> st.p, h |-> st.h, o |-> Append(st.o, PromptChangedEvent(ref))], ref)
updateLevel(st, ref, newLevel) ==
  LET h2 == [st.h EXCEPT ![ref].weight = levelToWeight(newLevel)]
  IN handlePromptChanged(
       [p |-> st.p, h |-> h2, o |-> Append(st.o, PromptChangedEvent(ref))], ref)

\* LevelSelector: the click on dot i dispatches level-changed with
\* this.level === i ? 0 : i, and the widget calls updateLevel with it.
selectLevel(level, i) == IF level = i THEN 0 ELSE i

ClickDot(w, i) ==
  /\ w \in Connected(widgets)
  /\ LET newLevel == selectLevel(WidgetLevel(heap, widgets[w]), i)
         st == updateLevel([p |-> prompts, h |-> heap, o |-> << >>],
                           widgets[w].prompt, newLevel)
     IN CommitRendered(st.p, st.h, widgets, windowListeners, st.o,
                       Op("level-changed", heap[widgets[w].prompt].promptId, w, newLevel))
  /\ UNCHANGED <<nextCC, availablePrompts, soundscape, addLog, fn>>

\* The cc-message listeners, in registration order: every element ever
\* connected has one (disconnectedCallback does not remove it).
RECURSIVE DispatchCC(_, _, _, _)
DispatchCC(i, st, cc, value) ==
  IF i > Len(widgets) THEN st
  ELSE DispatchCC(i + 1,
                  IF cc = st.h[widgets[i].prompt].cc
                  THEN updateLevel(st, widgets[i].prompt, ccToLevel(value))
                  ELSE st,
                  cc, value)

CCMessage(cc, value) ==
  /\ LET st == DispatchCC(1, [p |-> prompts, h |-> heap, o |-> << >>], cc, value)
     IN IF st.o = << >>
        THEN Commit(prompts, heap, widgets, windowListeners, << >>,
                    Op("cc-message", "", cc, ccToLevel(value)))
        ELSE CommitRendered(st.p, st.h, widgets, windowListeners, st.o,
                            Op("cc-message", "", cc, ccToLevel(value)))
  /\ UNCHANGED <<nextCC, availablePrompts, soundscape, addLog, fn>>

\* handlePointerDown on connected widget w; target is what the event path
\* holds: the remove button, a level dot, or neither.
handlePointerDown(w, target, pt) ==
  /\ w \in Connected(widgets)
  /\ target = "disc" => Len(windowListeners) < MaxDrags
  /\ IF target \in {"remove-btn", "dot"}
     THEN Commit(prompts, heap, widgets, windowListeners, << >>,
                 Op("pointerdown", target, w, 0))
     ELSE Commit(prompts, heap,
                 [widgets EXCEPT ![w] =
                    [widgets[w] EXCEPT
                       !.isDragging = TRUE,
                       !.dragStartX = pt[1], !.dragStartY = pt[2],
                       !.promptStartX = heap[widgets[w].prompt].x,
                       !.promptStartY = heap[widgets[w].prompt].y,
                       !.finalPos = << >>]],
                 IF \E k \in 1..Len(windowListeners) : windowListeners[k] = w
                 THEN windowListeners ELSE Append(windowListeners, w),
                 << >>, Op("pointerdown", target, w, 0))
  /\ UNCHANGED <<nextCC, availablePrompts, soundscape, addLog, fn>>

\* handlePointerMove of widget w on the record st = [h, w]
handlePointerMove(st, w, pt) ==
  LET wi == st.w[w]
      old == st.h[wi.prompt]
  IN IF ~wi.isDragging THEN st
     ELSE LET half == halfExtent(WidgetLevel(st.h, wi))
              reqX == wi.promptStartX + (pt[1] - wi.dragStartX)
              reqY == wi.promptStartY + (pt[2] - wi.dragStartY)
              newX == IF wi.connected THEN clamp(reqX, half, soundscape.w) ELSE reqX
              newY == IF wi.connected THEN clamp(reqY, half, soundscape.h) ELSE reqY
              h2 == Append(st.h, [old EXCEPT !.x = newX, !.y = newY, !.moved = TRUE])
          IN [h |-> h2, w |-> [st.w EXCEPT ![w].prompt = Len(h2),
                                           ![w].finalPos = <<newX, newY>>]]

RECURSIVE DispatchMove(_, _, _)
DispatchMove(k, st, pt) ==
  IF k > Len(windowListeners) THEN st
  ELSE DispatchMove(k + 1, handlePointerMove(st, windowListeners[k], pt), pt)

\* A pointermove event on window: every listener runs.
WindowPointerMove(pt) ==
  /\ LET st == DispatchMove(1, [h |-> heap, w |-> widgets], pt)
     IN Commit(prompts, st.h, st.w, windowListeners, << >>,
               Op("pointermove", "", 0, 0))
  /\ UNCHANGED <<nextCC, availablePrompts, soundscape, addLog, fn>>

\* while some widget listens
PointerMove(pt) ==
  /\ windowListeners # << >>
  /\ WindowPointerMove(pt)

\* while no widget listens
IdlePointerMove(pt) ==
  /\ windowListeners = << >>
  /\ WindowPointerMove(pt)

\* handlePointerUp of widget w on the record st = [p, h, o, w, wl]
handlePointerUp(st, w) ==
  IF ~st.w[w].isDragging THEN st
  ELSE LET c == handlePromptChanged(
                  [p |-> st.p, h |-> st.h,
                   o |-> Append(st.o, PromptChangedEvent(st.w[w].prompt))],
                  st.w[w].prompt)
       IN [p |-> c.p, h |-> c.h, o |-> c.o,
           w |-> [st.w EXCEPT ![w] = EndDrag(st.w[w], FALSE)],
           wl |-> SelectSeq(st.wl, LAMBDA i : i # w)]

RECURSIVE DispatchUp(_, _)
DispatchUp(k, st) ==
  IF k > Len(windowListeners) THEN st
  ELSE DispatchUp(k + 1, handlePointerUp(st, windowListeners[k]))

\* A pointerup event on window: every listener runs; handlePromptChanged
\* requests the update when one of them dispatched prompt-changed.
WindowPointerUp ==
  /\ LET st == DispatchUp(1, [p |-> prompts, h |-> heap, o |-> << >>,
                              w |-> widgets, wl |-> windowListeners])
     IN IF st.o = << >>
        THEN Commit(st.p, st.h, st.w, st.wl, st.o, Op("pointerup", "", 0, 0))
        ELSE CommitRendered(st.p, st.h, st.w, st.wl, st.o, Op("pointerup", "", 0, 0))
  /\ UNCHANGED <<nextCC, availablePrompts, soundscape, addLog, fn>>

\* while some widget listens
PointerUp ==
  /\ windowListeners # << >>
  /\ WindowPointerUp

\* while no widget listens
IdlePointerUp ==
  /\ windowListeners = << >>
  /\ WindowPointerUp

-----------------------------------------------------------------------------
(* PromptDjMidi: the MIDI panel *)

\* What getMidiAccess can resolve to, and the messages it can fail with.
AccessInputs == { << >>, << "in1" >>, << "in1", "in2" >> }
AccessErrors == { "denied", "unsupported" }

\* midi: showMidi, midiInputIds and activeMidiInputId ("" for null) are the
\* fields of PromptDjMidi; pending counts the calls of getMidiAccess that
\* have not settled, calls all calls of it so far, failed those that failed;
\* errors holds the detail of every error event dispatched so far, emitted
\* those of the last step; settled tells how the promise of the setShowMidi
\* that the last step ran or resumed stands.
NoMidi ==
  [showMidi |-> FALSE, midiInputIds |-> << >>, activeMidiInputId |-> "",
   pending |-> 0, calls |-> 0, failed |-> 0, errors |-> << >>,
   emitted |-> << >>, settled |-> "none"]

\* The fields whose change requests an update of PromptDjMidi.
Reactive(m) == << m.showMidi, m.activeMidiInputId >>

\* setShowMidi up to its await: showMidi is assigned; closing returns at
\* once, opening calls getMidiAccess and waits.
setShowMidiBegin(m, show) ==
  IF ~show
  THEN [m EXCEPT !.showMidi = FALSE, !.emitted = << >>, !.settled = "fulfilled"]
  ELSE [m EXCEPT !.showMidi = TRUE, !.emitted = << >>, !.settled = "pending",
                 !.pending = @ + 1, !.calls = @ + 1]

\* setShowMidi after the await, getMidiAccess having resolved to inputIds;
\* active is midiDispatcher.activeMidiInputId.
accessGranted(m, inputIds, active) ==
  [m EXCEPT !.midiInputIds = inputIds, !.activeMidiInputId = active,
            !.pending = @ - 1, !.emitted = << >>, !.settled = "fulfilled"]

\* setShowMidi after the await, getMidiAccess having failed with e: the catch
\* block.
catchKeepsOpen(m, message) ==
  [m EXCEPT !.pending = @ - 1, !.failed = @ + 1,
            !.errors = Append(@, message), !.emitted = << message >>,
            !.settled = "fulfilled"]
catchAccessFailure(m, message) ==
  [m EXCEPT !.showMidi = FALSE,
            !.pending = @ - 1, !.failed = @ + 1,
            !.errors = Append(@, message), !.emitted = << message >>,
            !.settled = "fulfilled"]

\* A step of the panel: the fields are assigned and, if a reactive one
\* changed (rerender: a new midiInputIds array), PromptDjMidi renders.
MidiStep(m2, rerender, op) ==
  /\ midi' = m2
  /\ IF rerender \/ Reactive(m2) # Reactive(midi)
     THEN /\ Store(prompts, heap, RenderWidgets(prompts, widgets),
                   RenderListeners(prompts, widgets, windowListeners), << >>, op)
          /\ throttle' = throttleCall(throttle, prompts, heap)
     ELSE /\ Store(prompts, heap, widgets, windowListeners, << >>, op)
          /\ throttle' = [throttle EXCEPT !.ran = "no"]
  /\ UNCHANGED <<nextCC, availablePrompts, soundscape, addLog, fn>>

\* setShowMidi(show), called by the host
setShowMidi(show) ==
  /\ show => midi.calls < MaxAcquisitions
  /\ MidiStep(setShowMidiBegin(midi, show), FALSE,
              Op("setShowMidi", IF show THEN "open" ELSE "close", 0, 0))

\* toggleShowMidi: the click on the MIDI button
toggleShowMidi ==
  /\ ~midi.showMidi => midi.calls < MaxAcquisitions
  /\ MidiStep(setShowMidiBegin(midi, ~midi.showMidi), FALSE,
              Op("toggleShowMidi", IF ~midi.showMidi THEN "open" ELSE "close", 0, 0))

\* A pending getMidiAccess resolves and its setShowMidi resumes.
AccessGranted ==
  /\ midi.pending > 0
  /\ \E inputIds \in AccessInputs :
       \E active \in {""} \cup {inputIds[i] : i \in 1..Len(inputIds)} :
          MidiStep(accessGranted(midi, inputIds, active), TRUE,
                   Op("access-granted", "", Len(inputIds), 0))

\* A pending getMidiAccess fails and its setShowMidi resumes in the catch.
AccessFailed ==
  /\ midi.pending > 0
  /\ \E message \in AccessErrors :
       MidiStep(catchAccessFailure(midi, message), FALSE,
                Op("access-failed", message, 0, 0))

\* handleMidiInputChange: the <select> of the panel, one of its options chosen
handleMidiInputChange ==
  /\ \E i \in 1..Len(midi.midiInputIds) :
       MidiStep([midi EXCEPT !.activeMidiInputId = midi.midiInputIds[i],
                             !.emitted = << >>, !.settled = "none"], FALSE,
                Op("midi-input-change", midi.midiInputIds[i], 0, 0))

-----------------------------------------------------------------------------
(* The initial state: the constructor and the first render *)

Seed(text, cc, weight, x, y) ==
  [promptId |-> text, text |-> text, weight |-> weight, cc |-> cc,
   color |-> "#9900ff", x |-> x, y |-> y, moved |-> FALSE]

\* The constructor with initialPrompts, in a container of the given size, and
\* the first render.
InitWith(initialPrompts, size) ==
  LET p == [i \in 1..Len(initialPrompts) |->
              [key |-> initialPrompts[i].promptId, ref |-> i]]
  IN /\ prompts = p
     /\ heap = initialPrompts
     /\ nextCC = 0
     /\ availablePrompts = getAvailablePrompts(p)
     /\ soundscape = size
     /\ widgets = RenderWidgets(p, << >>)
     /\ windowListeners = << >>
     /\ out = << >>
     /\ lastOp = NoOp
     /\ addLog = << >>
     /\ fn = NoFn
     /\ throttle = [throttleCall(NoThrottle, p, initialPrompts) EXCEPT !.ran = "no"]
     /\ held = NoHeld
     /\ midi = NoMidi

\* The events of the collection: the Add button, a prompt-removed event, a
\* host update.
CollectionStep(texts) ==
  \/ \E text \in texts : handleAddPrompt(text)
  \/ \E id \in texts : handlePromptRemoved(id)
  \/ HostUpdate

\* The events of the widgets: a click on a dot, a MIDI cc-message, the
\* pointer.
WidgetStep(dots, values, pointers) ==
  \/ \E w \in 1..MaxWidgets, i \in dots : ClickDot(w, i)
  \/ \E cc \in 0..MaxCC, value \in values : CCMessage(cc, value)
  \/ \E w \in 1..MaxWidgets, target \in {"disc", "remove-btn", "dot"}, pt \in pointers :
       handlePointerDown(w, target, pt)
  \/ \E pt \in pointers : PointerMove(pt)
  \/ PointerUp

-----------------------------------------------------------------------------
(* Spec: the whole component, two palette names.  The collection starts   *)
(* empty or pre-seeded with a prompt whose cc the caller chose; levels go *)
(* to both ends of the range (dot 5 toggles 5 and 0, MIDI 0 and 127, the  *)
(* seed is at weight 1.0); the pointer stays where it went down, in a     *)
(* container that holds the disc at every level.                          *)

InitialPrompts == { << >>, << Seed("Bass", 0, 10, 50, 50) >> }
Containers == { [w |-> 100, h |-> 100] }
EndDots == {5}
EndValues == {0, 127}
StillPointers == { <<0, 0>> }

Init ==
  \E initialPrompts \in InitialPrompts, size \in Containers :
    InitWith(initialPrompts, size)

Next ==
  \/ CollectionStep(TextInputs)
  \/ WidgetStep(EndDots, EndValues, StillPointers)

Spec == Init /\ [][Next]_vars

-----------------------------------------------------------------------------
(* SpecDrag: one seeded prompt that is dragged while its level changes.   *)
(* The container is 100 x 60: wide enough for the disc at every level,    *)
(* lower than the disc from level 3 on.                                   *)

DragSeed == << Seed("Bass", 0, 0, 50, 30) >>
DragContainer == [w |-> 100, h |-> 60]
\* Pointer coordinates (clientX, clientY)
DragPointers == { <<0, 0>>, <<30, 10>>, <<200, 200>> }

InitDrag == InitWith(DragSeed, DragContainer)

NextDrag ==
  \/ HostUpdate
  \/ WidgetStep(EndDots, EndValues, DragPointers)
  \/ \E pt \in DragPointers : IdlePointerMove(pt)
  \/ IdlePointerUp

SpecDrag == InitDrag /\ [][NextDrag]_vars

-----------------------------------------------------------------------------
(* SpecThrottle: two seeded prompts whose levels change while time passes. *)
(* Every render calls makeBackground; the clock and the timer of the       *)
(* throttle are the two further steps.  Time passes and a due timer runs:  *)
(* both steps are weakly fair.                                             *)

\* Time passes: TickStep more since the last computation (beyond Interval the
\* throttle does not tell one time from another).  No handler runs.
Tick ==
  /\ throttle.elapsed < Interval
  /\ throttle' = [throttle EXCEPT !.elapsed = Min(throttle.elapsed + TickStep, Interval),
                                  !.ran = "no"]
  /\ UNCHANGED <<prompts, heap, nextCC, availablePrompts, soundscape, widgets,
                 windowListeners, out, lastOp, addLog, fn, held, midi>>

\* The timer of the throttle runs, Interval after the last computation.  It
\* reads the prompts and changes nothing but the throttle.
TimerFire ==
  /\ throttle.pending
  /\ throttle.elapsed >= Interval
  /\ throttle' = throttleTimer(throttle, prompts, heap)
  /\ UNCHANGED <<prompts, heap, nextCC, availablePrompts, soundscape, widgets,
                 windowListeners, out, lastOp, addLog, fn, held, midi>>

ThrottleSeed == << Seed("Bass", 0, 10, 50, 50), Seed("Drums", 1, 0, 50, 50) >>

InitThrottle == InitWith(ThrottleSeed, [w |-> 100, h |-> 100])

NextThrottle ==
  \/ HostUpdate
  \/ \E w \in 1..MaxWidgets, i \in EndDots : ClickDot(w, i)
  \/ \E cc \in 0..MaxCC, value \in EndValues : CCMessage(cc, value)
  \/ Tick
  \/ TimerFire

SpecThrottle ==
  InitThrottle /\ [][NextThrottle]_vars /\ WF_vars(Tick) /\ WF_vars(TimerFire)

-----------------------------------------------------------------------------
(* SpecSnapshot: a listener of the host keeps the payload of one          *)
(* prompts-changed notification while prompts are added, removed, set to  *)
(* other levels and dragged.                                              *)

\* A Map by value: each key with the fields of its Prompt.
MapView(m, h) == [i \in 1..Len(m) |-> [key |-> m[i].key, value |-> h[m[i].ref]]]

\* The prompts-changed events among the events of a handler
PromptsChangedIn(o) == SelectSeq(o, LAMBDA e : e.type = "prompts-changed")

\* The listener keeps e.detail of the last prompts-changed that the last
\* handler dispatched.  No handler has run since the dispatch, so the Map
\* holds what it held when it was published.
Hold ==
  /\ ~held.taken
  /\ PromptsChangedIn(out) # << >>
  /\ LET pcs == PromptsChangedIn(out)
         m == pcs[Len(pcs)].snapshot
     IN held' = [taken |-> TRUE, snapshot |-> m, view |-> MapView(m, heap)]
  /\ UNCHANGED <<prompts, heap, nextCC, availablePrompts, soundscape, widgets,
                 windowListeners, out, lastOp, addLog, fn, throttle, midi>>

\* Under SpecSnapshot no prompt is added once nextCC has reached SnapshotAdds.
SnapshotAdds == 1
SnapshotPointers == { <<30, 10>> }

SnapshotAdd ==
  /\ nextCC < SnapshotAdds
  /\ handleAddPrompt("Bass")

InitSnapshot == InitWith(<< >>, [w |-> 100, h |-> 100])

NextSnapshot ==
  \/ SnapshotAdd
  \/ handlePromptRemoved("Bass")
  \/ HostUpdate
  \/ WidgetStep(EndDots, EndValues, SnapshotPointers)
  \/ Hold

SpecSnapshot == InitSnapshot /\ [][NextSnapshot]_vars

-----------------------------------------------------------------------------
(* SpecMidi: the MIDI panel is opened and closed, by the button and by    *)
(* the host, while calls of getMidiAccess are pending; each call resolves *)
(* or fails at any later time.                                            *)

InitMidi == InitWith(<< >>, [w |-> 100, h |-> 100])

NextMidi ==
  \/ \E show \in BOOLEAN : setShowMidi(show)
  \/ toggleShowMidi
  \/ AccessGranted
  \/ AccessFailed
  \/ handleMidiInputChange

SpecMidi == InitMidi /\ [][NextMidi]_vars

-----------------------------------------------------------------------------
(* SpecLevels: one seeded prompt whose level is set from the dots and     *)
(* from MIDI, to every level and in every order, also while it is         *)
(* dragged (the pointer stays where it went down).                        *)

LevelDots == 1..5
\* MIDI values for the levels 0, 3 and 5
LevelValues == {0, 64, 127}

LevelSeed == << Seed("Bass", 0, 10, 50, 50) >>

InitLevels == InitWith(LevelSeed, [w |-> 100, h |-> 100])

NextLevels ==
  \/ HostUpdate
  \/ WidgetStep(LevelDots, LevelValues, StillPointers)

SpecLevels == InitLevels /\ [][NextLevels]_vars

-----------------------------------------------------------------------------
(* SpecCC: the counter over many adds.  nextCC is static, one counter for *)
(* every PromptDjMidi of the page: the adds of the other instances count  *)
(* as well, and they are taken before the first add of this one.          *)

\* A successful handleAddPrompt of another PromptDjMidi: of this instance's
\* state it changes the static counter alone.
OtherInstanceAdd ==
  /\ nextCC < MaxAdds
  /\ addLog = << >>
  /\ nextCC' = nextCC + 1
  /\ UNCHANGED <<prompts, heap, availablePrompts, soundscape, widgets,
                 windowListeners, out, lastOp, addLog, fn, throttle, held, midi>>

\* the click on Add, while the counter is below MaxAdds
LateAdd ==
  /\ nextCC < MaxAdds
  /\ addPrompt("Bass")

InitCC == InitWith(<< >>, [w |-> 100, h |-> 100])

NextCC ==
  \/ OtherInstanceAdd
  \/ LateAdd
  \/ handlePromptRemoved("Bass")
  \/ HostUpdate

SpecCC == InitCC /\ [][NextCC]_vars

-----------------------------------------------------------------------------
(* The conversions and the clamp on their own: the specification SpecFn   *)
(* applies each function to inputs drawn from the sets below and keeps    *)
(* the arguments and the result in fn.                                    *)

\* Requested coordinates: promptStart + delta, on both sides of every bound.
Requests == {-200, 0, 19, 20, 21, 30, 45, 50, 55, 80, 950, 951, 1000, 5000}
\* offsetWidth / 2 at each level, and the 50 of a 100 px disc.
Halves == {halfExtent(l) : l \in 0..5} \cup {50}
\* parent.offsetWidth: larger than, as large as, smaller than the disc, and 0.
Extents == {1000, 100, 90, 60, 30, 0}

FnUnchanged ==
  UNCHANGED <<prompts, heap, nextCC, availablePrompts, soundscape, widgets,
              windowListeners, out, lastOp, addLog, throttle, held, midi>>

\* handlePointerMove lines 219-220 on one axis
FnClamp ==
  /\ fn.op = "none"
  /\ \E requested \in Requests, half \in Halves, extent \in Extents :
       fn' = [NoFn EXCEPT !.op = "clamp", !.a = requested, !.b = half,
                          !.c = extent, !.r = clamp(requested, half, extent)]
  /\ FnUnchanged

\* the same lines applied to the point they returned
FnClampAgain ==
  /\ fn.op = "clamp"
  /\ fn' = [fn EXCEPT !.op = "clamp-again", !.a = fn.r, !.prev = fn.a,
                      !.r = clamp(fn.r, fn.b, fn.c), !.r2 = fn.r]
  /\ FnUnchanged

\* updateLevel line 260
FnLevelToWeight ==
  /\ fn.op = "none"
  /\ \E level \in 0..5 :
       fn' = [NoFn EXCEPT !.op = "levelToWeight", !.a = level,
                          !.r = levelToWeight(level)]
  /\ FnUnchanged

\* the level getter, lines 149-151, applied to the weight updateLevel stored
FnWeightToLevel ==
  /\ fn.op = "levelToWeight"
  /\ fn' = [NoFn EXCEPT !.op = "weightToLevel", !.a = fn.r, !.prev = fn.a,
                        !.r = weightToLevel(fn.r)]
  /\ FnUnchanged

\* the cc-message listener line 170, on two values
FnCcToLevel ==
  /\ fn.op = "none"
  /\ \E value \in 0..127, other \in 0..127 :
       fn' = [NoFn EXCEPT !.op = "ccToLevel", !.a = value, !.b = other,
                          !.r = ccToLevel(value), !.r2 = ccToLevel(other)]
  /\ FnUnchanged

NextFn ==
  \/ FnClamp
  \/ FnClampAgain
  \/ FnLevelToWeight
  \/ FnWeightToLevel
  \/ FnCcToLevel

InitFn == InitWith(<< >>, [w |-> 0, h |-> 0])

SpecFn == InitFn /\ [][NextFn]_vars

-----------------------------------------------------------------------------
(* Properties of the collection, checked under Spec *)

\* The collection by value: each key with the fields of its Prompt.
PromptsView ==
  [i \in 1..Len(prompts) |-> [key |-> prompts[i].key, value |-> heap[prompts[i].ref]]]

\* The Prompt that handleAddPrompt has just created (lastOp is a successful add).
Added == heap[prompts[MapGet(prompts, lastOp.id)].ref]

\* The counter itself never hands out a number twice: each successful add
\* received a cc greater than every earlier successful add.
AddLogIncreasing ==
  \A i, j \in 1..Len(addLog) : i < j => addLog[i] < addLog[j]

\* C1: each successful add assigns a cc strictly greater than the cc of every
\* earlier successful add, and a prompt added under the name of a removed
\* prompt has a cc strictly greater than the removed one (the removed Prompt
\* objects are those of that name that removed elements still hold).
C1_NeverReusedCC ==
  /\ AddLogIncreasing
  /\ (lastOp.op = "add" /\ out # << >>) =>
        /\ Added.cc = addLog[Len(addLog)]
        /\ \A r \in 1..Len(heap) :
              (heap[r].promptId = lastOp.id /\ r # prompts[MapGet(prompts, lastOp.id)].ref)
                 => heap[r].cc < Added.cc

\* C2: no two prompts of the collection have the same cc.
C2_UniqueCC ==
  \A i, j \in 1..Len(prompts) :
     i # j => heap[prompts[i].ref].cc # heap[prompts[j].ref].cc

\* C3: an add with an empty name or with a name that is a key of the
\* collection changes neither the collection (its keys and every field of
\* every prompt), nor the counter, nor the available names, and emits no
\* notification.
C3_RejectedAddIsNoOp ==
  [][(lastOp'.op = "add" /\ (lastOp'.id = "" \/ MapHas(prompts, lastOp'.id)))
       => /\ PromptsView' = PromptsView
          /\ nextCC' = nextCC
          /\ addLog' = addLog
          /\ availablePrompts' = availablePrompts
          /\ out' = << >>]_vars

\* a second add of "Bass" after the first one succeeded
C3_Witness ==
  /\ lastOp.op = "add" /\ lastOp.id = "Bass"
  /\ out = << >>
  /\ MapHas(prompts, "Bass")
  /\ addLog # << >>

\* C4: a remove of an id that is not a key of the collection changes neither
\* the collection nor the available names and emits no prompts-changed
\* notification.
C4_AbsentRemoveIsNoOp ==
  [][(lastOp'.op = "remove" /\ ~MapHas(prompts, lastOp'.id))
       => /\ PromptsView' = PromptsView
          /\ availablePrompts' = availablePrompts
          /\ out' = << >>]_vars

\* C5: the weight of every Prompt, in the collection or held by an element,
\* is between 0 and 2 (0..20 tenths), so that its level is in 0..5.
C5_WeightInRange ==
  \A r \in 1..Len(heap) :
     /\ heap[r].weight \in 0..20
     /\ weightToLevel(heap[r].weight) \in 0..5

\* a cc-message of value 127 has set a prompt to the top of the range
C5_Witness ==
  /\ lastOp.op = "cc-message" /\ lastOp.level = 5
  /\ out # << >>
  /\ \E i \in 1..Len(prompts) : heap[prompts[i].ref].weight = 20

\* C13: a widget listens on window only while it is connected and Dragging;
\* no widget listens before the first pointer-down or after a pointer-up, and
\* a removed widget does not listen.
C13_ListenersOnlyWhileDragging ==
  /\ \A k \in 1..Len(windowListeners) :
        /\ widgets[windowListeners[k]].connected
        /\ widgets[windowListeners[k]].isDragging
  /\ lastOp.op \in {"init", "pointerup"} => windowListeners = << >>

\* the only prompt was removed while its widget was being dragged
C13_Witness ==
  /\ lastOp.op = "remove"
  /\ windowListeners = << >>
  /\ \E i \in 1..Len(widgets) : ~widgets[i].connected /\ widgets[i].isDragging

\* C14: a widget removed while Dragging is Idle afterwards (isDragging is
\* cleared), and its removal emits no prompt-changed.
C14_TeardownEndsDrag ==
  /\ \A i \in 1..Len(widgets) : ~widgets[i].connected => ~widgets[i].isDragging
  /\ lastOp.op = "remove" => PromptChangedIn(out) = << >>

\* C19: the available names are exactly the palette entries whose name is
\* not a key of the collection.
C19_AvailableIsPaletteMinusKeys ==
  /\ \A i \in 1..Len(allPrompts) :
        (\E j \in 1..Len(availablePrompts) : availablePrompts[j] = allPrompts[i])
          <=> ~MapHas(prompts, allPrompts[i].text)
  /\ \A j \in 1..Len(availablePrompts) :
        \E i \in 1..Len(allPrompts) : allPrompts[i] = availablePrompts[j]

\* The keys of the collection
Keys(m) == {m[i].key : i \in 1..Len(m)}

\* C20: a cc-message changes no Prompt that only a removed widget holds,
\* dispatches no prompt-changed for such a Prompt, and adds no key to the
\* collection: a removed promptId comes back through a successful add only.
C20_NoMidiAfterTeardown ==
  [][lastOp'.op = "cc-message"
       => /\ Keys(prompts') \subseteq Keys(prompts)
          /\ \A i \in 1..Len(widgets) :
                ~widgets[i].connected
                  => /\ heap'[widgets'[i].prompt].weight = heap[widgets[i].prompt].weight
                     /\ \A k \in 1..Len(out') :
                           out'[k].type = "prompt-changed"
                             => out'[k].ref # widgets'[i].prompt]_vars

\* C21: a cc-message sets the weight of the prompts of the collection whose
\* cc is the message's to levelToWeight(ccToLevel(value)) and leaves the
\* record of every other prompt, and the keys, as they are; when no prompt of
\* the collection has that cc, the collection is as before and nothing is
\* notified.
C21_CcMessageFrame ==
  [][lastOp'.op = "cc-message"
       => IF \E i \in 1..Len(prompts) : heap[prompts[i].ref].cc = lastOp'.n
          THEN /\ Len(prompts') = Len(prompts)
               /\ \A i \in 1..Len(prompts) :
                     /\ prompts'[i].key = prompts[i].key
                     /\ IF heap[prompts[i].ref].cc = lastOp'.n
                        THEN heap'[prompts'[i].ref].weight = levelToWeight(lastOp'.level)
                        ELSE heap'[prompts'[i].ref] = heap[prompts[i].ref]
          ELSE /\ PromptsView' = PromptsView
               /\ out' = << >>]_vars

-----------------------------------------------------------------------------
(* Properties of the counter, checked under SpecCC *)

\* C22: the cc of every prompt of the collection is a MIDI control
\* identifier, a number in 0..127, however many adds, removes and adds of a
\* removed name came before.
C22_CcIsMidiControl ==
  \A i \in 1..Len(prompts) : heap[prompts[i].ref].cc \in 0..127

-----------------------------------------------------------------------------
(* Properties of a published snapshot, checked under SpecSnapshot *)

\* C16: the Map a prompts-changed notification published holds, whatever
\* happens later, the keys it held when it was published and, for each, the
\* weight, x and y it held then.
C16_SnapshotIsStable ==
  held.taken =>
    /\ Len(held.snapshot) = Len(held.view)
    /\ \A i \in 1..Len(held.snapshot) :
          LET now == heap[held.snapshot[i].ref]
              then == held.view[i].value
          IN /\ held.snapshot[i].key = held.view[i].key
             /\ now.weight = then.weight
             /\ now.x = then.x /\ now.y = then.y

-----------------------------------------------------------------------------
(* Properties of the MIDI panel, checked under SpecMidi *)

\* C17: when a call of getMidiAccess fails, the panel is closed afterwards,
\* one error event carrying the failure's message is dispatched, the promise
\* of setShowMidi is fulfilled and getMidiAccess is not called again; no
\* other step dispatches an error, so there are as many error events as
\* failures, however the panel was opened and closed in between.
C17_AccessFailureReverts ==
  /\ [][lastOp'.op = "access-failed"
          => /\ ~midi'.showMidi
             /\ midi'.emitted = << lastOp'.id >>
             /\ midi'.errors = Append(midi.errors, lastOp'.id)
             /\ midi'.settled = "fulfilled"
             /\ midi'.calls = midi.calls
             /\ midi'.pending = midi.pending - 1]_vars
  /\ [][lastOp'.op # "access-failed"
          => (midi'.errors = midi.errors /\ midi'.emitted = << >>)]_vars
  /\ [](Len(midi.errors) = midi.failed)
  /\ [](midi.settled # "rejected")

\* opened, closed and opened again; the first call has failed while the
\* second is pending
C17_Witness ==
  /\ lastOp.op = "access-failed" /\ lastOp.id = "denied"
  /\ midi.calls = 2 /\ midi.pending = 1
  /\ ~midi.showMidi
  /\ midi.errors = << "denied" >>

-----------------------------------------------------------------------------
(* Properties of the levels, checked under SpecLevels *)

\* The weight of widget i's record and of the collection's record of the
\* same promptId is that of the level.
WeightIs(i, level) ==
  LET pr == heap[widgets[i].prompt]
  IN /\ pr.weight = levelToWeight(level)
     /\ MapHas(prompts, pr.promptId)
     /\ Record(prompts, heap, pr.promptId).weight = levelToWeight(level)

\* C18: after a level selection on a widget, and after a cc-message for
\* every widget bound to its cc, the weight in the widget's record and in
\* the collection's record is levelToWeight of the level that this last
\* event carried, whatever events came before and whether or not the prompt
\* is being dragged; each such event is notified.
C18_LastEventWins ==
  /\ lastOp.op = "level-changed"
       => (WeightIs(lastOp.n, lastOp.level) /\ Len(PromptChangedIn(out)) = 1)
  /\ lastOp.op = "cc-message"
       => \A i \in Connected(widgets) :
             heap[widgets[i].prompt].cc = lastOp.n
               => (WeightIs(i, lastOp.level) /\ PromptChangedIn(out) # << >>)

\* a cc-message of value 64 during a drag that has moved the prompt, whose
\* level a dot had set to 5 before
C18_Witness ==
  /\ lastOp.op = "cc-message" /\ lastOp.level = 3 /\ lastOp.n = 0
  /\ \E i \in Connected(widgets) :
        /\ widgets[i].isDragging
        /\ heap[widgets[i].prompt].moved
        /\ heap[widgets[i].prompt].cc = 0
        /\ WeightIs(i, 3)

-----------------------------------------------------------------------------
(* Properties of the drag, checked under SpecDrag *)

\* The bounds are degenerate when the upper one lies below the lower one.
Degenerate(half, extent) == extent - half < half

InBounds(v, half, extent) == half <= v /\ v <= extent - half

\* C6 as stated: once a prompt has been moved, in every later state its
\* position is within [half, extent - half] on both axes, half being half of
\* the element's extent at its current level.
C6_InsideOnceMoved ==
  \A i \in Connected(widgets) :
     LET pr == heap[widgets[i].prompt]
         half == halfExtent(WidgetLevel(heap, widgets[i]))
     IN pr.moved => /\ InBounds(pr.x, half, soundscape.w)
                    /\ InBounds(pr.y, half, soundscape.h)

\* C6 as the code has it: right after a pointer move, the position of each
\* dragged prompt is at least half on both axes and, on an axis where the
\* container holds the element, at most extent - half, half being taken at
\* the level the prompt has at the move.  A later change of level does not
\* clamp the position again.
C6_InsideAfterMove ==
  lastOp.op = "pointermove" =>
    \A k \in 1..Len(windowListeners) :
       LET wi == widgets[windowListeners[k]]
           pr == heap[wi.prompt]
           half == halfExtent(WidgetLevel(heap, wi))
       IN wi.isDragging =>
            /\ pr.moved
            /\ half <= pr.x /\ half <= pr.y
            /\ ~Degenerate(half, soundscape.w) => pr.x <= soundscape.w - half
            /\ ~Degenerate(half, soundscape.h) => pr.y <= soundscape.h - half

\* a drag far to the right, stopped at the right bound of the level
C6_Witness ==
  /\ lastOp.op = "pointermove"
  /\ \E k \in 1..Len(windowListeners) :
       LET wi == widgets[windowListeners[k]]
           pr == heap[wi.prompt]
       IN /\ wi.isDragging /\ pr.moved
          /\ pr.x = soundscape.w - halfExtent(WidgetLevel(heap, wi))
          /\ pr.x > wi.promptStartX

\* The drag state machine but for the payload of the pointer-up: a
\* pointer-down on the disc makes the widget Dragging; a pointer-down on the
\* remove button or a level dot changes no widget and adds no listener; a
\* pointer-move emits nothing; each drag that a pointer-up ends emits one
\* prompt-changed; pointer-move and pointer-up with no drag in progress
\* change nothing and emit nothing.
DragMachine ==
  [][/\ (lastOp'.op = "pointerdown" /\ lastOp'.id = "disc")
          => (widgets'[lastOp'.n].isDragging /\ out' = << >>)
     /\ (lastOp'.op = "pointerdown" /\ lastOp'.id # "disc")
          => (widgets' = widgets /\ windowListeners' = windowListeners /\ out' = << >>)
     /\ lastOp'.op = "pointermove" => out' = << >>
     /\ (lastOp'.op = "pointerup" /\ windowListeners # << >>)
          => (/\ Len(PromptChangedIn(out')) = Len(windowListeners)
              /\ \A k \in 1..Len(windowListeners) :
                    ~widgets'[windowListeners[k]].isDragging)
     /\ (lastOp'.op \in {"pointermove", "pointerup"} /\ windowListeners = << >>)
          => (/\ PromptsView' = PromptsView
              /\ widgets' = widgets /\ heap' = heap
              /\ out' = << >>)]_vars

\* The prompt-changed of each drag that a pointer-up ends carries the
\* position that the last pointer-move of the drag computed.
UpCarriesFinalPosition ==
  [][(lastOp'.op = "pointerup" /\ windowListeners # << >>)
       => \A k \in 1..Len(windowListeners) :
            LET wi == widgets[windowListeners[k]]
                pcs == PromptChangedIn(out')
            IN (wi.finalPos # << >> /\ k <= Len(pcs))
                 => (/\ heap'[pcs[k].ref].x = wi.finalPos[1]
                     /\ heap'[pcs[k].ref].y = wi.finalPos[2])]_vars

\* C12: the drag state machine.  Pointer-down outside the remove button and
\* the level dots goes from Idle to Dragging, pointer-down on them leaves the
\* state as it is, no pointer-move emits a prompt-changed, the pointer-up
\* that ends a drag emits exactly one prompt-changed, which carries the final
\* clamped position, and pointer-move and pointer-up while Idle change and
\* emit nothing.
C12_DragStateMachine == DragMachine /\ UpCarriesFinalPosition

\* Field by field, the step leaves the records of the collection and of the
\* connected widgets as they are: same(a, b) compares a record before the
\* step with the record of the same promptId after it.
RecordsKeep(same(_, _)) ==
  /\ \A i \in 1..Len(prompts) :
        MapHas(prompts', prompts[i].key)
          => same(heap[prompts[i].ref], Record(prompts', heap', prompts[i].key))
  /\ \A i \in 1..Len(widgets) :
        (widgets[i].connected /\ widgets'[i].connected
           /\ heap[widgets[i].prompt].promptId = heap'[widgets'[i].prompt].promptId)
          => same(heap[widgets[i].prompt], heap'[widgets'[i].prompt])

SamePosition(a, b) == a.x = b.x /\ a.y = b.y

SameWeight(a, b) == a.weight = b.weight

\* C15: a cc-message or a level selection leaves x and y of every prompt as
\* they are, in the widget's record and in the collection's record of that
\* promptId; pointer-down, pointer-move and pointer-up leave the weight as it
\* is in both.
C15_ChannelsOrthogonal ==
  [][/\ lastOp'.op \in {"cc-message", "level-changed"} => RecordsKeep(SamePosition)
     /\ lastOp'.op \in {"pointerdown", "pointermove", "pointerup"}
          => RecordsKeep(SameWeight)]_vars

-----------------------------------------------------------------------------
(* Properties of the throttled background, checked under SpecThrottle *)

\* C11: the background is computed anew only when 30 time units have passed
\* since the last computation, so a burst of calls within one interval causes
\* at most one further computation; a call in a quiet period computes at
\* once; a pending trailing computation does happen; and whenever none is
\* pending the background is the one of the latest prompts.
C11_TrailingThrottle ==
  /\ [][throttle'.ran # "no" => throttle.elapsed >= 30]_vars
  /\ [][(throttle.elapsed >= 30 /\ ~throttle.pending
           /\ lastOp'.op \in {"render", "level-changed"})
         => (throttle'.ran = "call" /\ throttle'.result = Background(prompts', heap'))]_vars
  /\ [](~throttle.pending => throttle.result = Background(prompts, heap))
  /\ (throttle.pending ~> throttle.ran = "timer")

\* the timer has computed the background of two prompts raised in a burst
C11_Witness ==
  /\ throttle.ran = "timer"
  /\ throttle.result = << [color |-> "#9900ff", weight |-> 20],
                          [color |-> "#9900ff", weight |-> 20] >>

-----------------------------------------------------------------------------
(* Properties of the pure computations, checked under SpecFn *)

\* C7 as stated: when the container is no larger than the element on an axis
\* (extent - half < half), the clamp returns the midpoint of the container on
\* that axis, extent / 2, whatever coordinate was requested.
C7_DegenerateMidpoint ==
  (fn.op = "clamp" /\ Degenerate(fn.b, fn.c)) => 2 * fn.r = fn.c

\* C7 as the code has it: in the degenerate case the clamp still returns one
\* value for every requested coordinate, but that value is the element's
\* half-extent (the lower bound), which lies beyond the container's midpoint.
C7_DegeneratePinsToHalf ==
  (fn.op = "clamp" /\ Degenerate(fn.b, fn.c)) =>
     (fn.r = fn.b /\ 2 * fn.r > fn.c)

\* a far request against a 60-unit container and a level-5 disc (half 45)
C7_Witness ==
  /\ fn.op = "clamp"
  /\ fn.a = 5000 /\ fn.b = halfExtent(5) /\ fn.c = 60
  /\ fn.r = halfExtent(5)

\* C8: clamping a point that the clamp returned, against the same extent and
\* container, returns it unchanged; with half-extent 50 in a 1000-unit
\* container a request of 5000 gives 950 and a request of -200 gives 50.
C8_ClampIdempotent ==
  /\ fn.op = "clamp-again" => fn.r = fn.a
  /\ (fn.op = "clamp" /\ fn.b = 50 /\ fn.c = 1000 /\ fn.a = 5000) => fn.r = 950
  /\ (fn.op = "clamp" /\ fn.b = 50 /\ fn.c = 1000 /\ fn.a = -200) => fn.r = 50

\* the request of 5000, clamped to 950 and clamped again
C8_Witness ==
  /\ fn.op = "clamp-again"
  /\ fn.prev = 5000 /\ fn.b = 50 /\ fn.c = 1000
  /\ fn.a = 950 /\ fn.r = 950

\* C9: for each level 0..5, the weight updateLevel stores is level / 2.5 and
\* the level getter applied to that weight gives the level back.
C9_LevelRoundTrip ==
  /\ fn.op = "levelToWeight" => 25 * fn.r = 100 * fn.a
  /\ fn.op = "weightToLevel" => fn.r = fn.prev

\* level 3 stored as weight 1.2 and read back as 3
C9_Witness ==
  /\ fn.op = "weightToLevel"
  /\ fn.prev = 3 /\ fn.a = 12 /\ fn.r = 3

\* C10: the level derived from a MIDI value in 0..127 is an integer in 0..5,
\* is 0 for value 0 and 5 for value 127, and does not decrease when the value
\* increases.
C10_CcLevelMonotone ==
  fn.op = "ccToLevel" =>
     /\ fn.r \in 0..5
     /\ fn.a = 0 => fn.r = 0
     /\ fn.a = 127 => fn.r = 5
     /\ fn.a <= fn.b => fn.r <= fn.r2

\* the two ends of the range, mapped to the two ends of the levels
C10_Witness ==
  /\ fn.op = "ccToLevel"
  /\ fn.a = 0 /\ fn.b = 127
  /\ fn.r = 0 /\ fn.r2 = 5

====
